---- MODULE Spec2Model ----
(***************************************************************************)
(* A model of frontend/src/App.jsx: the scrape-job control panel           *)
(* (ScrapePanel), the App root that mounts it, and the read path           *)
(* (apiFetch and the callers that fall back to the synthetic datasets).    *)
(*                                                                         *)
(* A React event handler, timer callback or promise continuation is one    *)
(* action: the state setters it calls, the render they cause and the       *)
(* effects of that render (cleanup of the previous effect, then the new    *)
(* effect body) all belong to the same step.                               *)
(***************************************************************************)
EXTENDS Integers, FiniteSets, Sequences, Bags, TLC

\* ------------------------------------------------------------------ bounds
\* POST /scrape/trigger requests issued in one behaviour.
MaxPosts == 2
\* GET /scrape/status requests issued in one behaviour.
MaxGets == 3
\* Times the panel is opened (ScrapePanel instances) in one behaviour.
MaxOpens == 1
\* Calls of ListingsView.load in one behaviour.
MaxLoads == 2
\* Values a Math.random() draw is taken from: k/RandSteps, k < RandSteps.
RandSteps == 4
\* Largest benchmark (suburb average) a price is classified against on its
\* own; prices go up to twice that.
MaxBench == 40
\* Largest supply (listing count) of a suburb in a supply/demand dataset.
MaxSupply == 4
\* Largest price (kina a month) a colour is computed for.
MaxPrice == 8000
\* Largest listing count of a suburb on the heatmap.
MaxListings == 25
\* Largest value of a trend series.
MaxTrend == 1

\* ------------------------------------------------------------- vocabulary
\* srcList keys of the panel (App.jsx line 290).
SrcKeys == {"hausples", "professionals", "agencies", "facebook"}
\* useState initial value of sources (App.jsx line 267).
DefaultSources == {"hausples", "professionals", "agencies"}

\* ScrapeJob.status values; "null" marks job === null, "none" a job the
\* service has not created.
Statuses == {"queued", "running", "complete", "error"}
Terminal(s) == s \in {"complete", "error"}

\* JavaScript null: what apiFetch resolves to on failure, and useState(null).
Null == [null |-> TRUE]
\* job_id of a response that carries none (job?.job_id is undefined).
NoId == 0
\* useRef(null) of pollRef.
NoTimer == 0

\* What fetch can do with a request: a 2xx response with a JSON body, a
\* non-2xx response, a transport failure (fetch rejects), or a 2xx response
\* whose body is not JSON (r.json() rejects).
Outcomes == {"ok", "non2xx", "transport", "badjson"}

VARIABLES
    \* App
    showScrape,     \* useState(false): the panel is mounted
    loadAllCalls,   \* number of times loadAll has been invoked
    \* ScrapePanel (the mounted instance)
    inst,           \* which ScrapePanel instance is (or was last) mounted
    sources,        \* useState([...]) selected source keys
    job,            \* useState(null)
    polling,        \* useState(false)
    pollRef,        \* useRef(null).current, per instance
    \* browser
    timers,         \* active setInterval timers: [id, inst, job_id]
    nextTimer,      \* next timer id setInterval returns
    net,            \* requests in flight (a bag): [kind, inst, job_id, st,
                    \* sources]; st is the status the service answered a
                    \* status request with, sources the body of a trigger
    \* job-control service
    svc,            \* status of each job the service has created
    nextJob,        \* number of jobs the service has created
    \* observation
    posts,          \* POST /scrape/trigger requests issued
    gets,           \* GET /scrape/status/{id} requests issued
    terminalSeen,   \* job ids whose terminal poll response the panel processed
    clickDropped,   \* the last event was a click on the disabled trigger button
    \* App (read path)
    view,           \* useState("dashboard"): the routed view
    overview, heatmap, trends, sd, appSources,  \* useState(null) datasets
    loading,        \* useState(true)
    allDone,        \* loadAll: "awaiting", "done" or "rejected"
    allFailed,      \* observation: the fetches loadAll found failed on resuming
    \* HeatmapView, AnalyticsView, FlagsView (the mounted one; otherwise their
    \* initial values)
    hvData,         \* HeatmapView data
    avSd, avSrc, avTrends,                      \* AnalyticsView sd, src, trends
    flagged, fvLoading,                         \* FlagsView flagged, loading
    \* ListingsView
    listings, total, pages, page, lvLoading,
    filters,        \* suburb, source, type, minPrice, maxPrice, mvFilter, sort
    rnet,           \* requests of the routed view in flight (a bag)
    loads,          \* calls of ListingsView.load
    \* a pure computation of the program, taken on its own
    call,           \* the call: the function and its arguments
    ret             \* what it returned, Null before it returns

appVars    == <<showScrape, loadAllCalls>>
panelVars  == <<inst, sources, job, polling, pollRef>>
envVars    == <<timers, nextTimer, net, svc, nextJob>>
obsVars    == <<posts, gets, terminalSeen, clickDropped>>
scrapeVars == <<appVars, panelVars, envVars, obsVars>>
dashVars   == <<overview, heatmap, trends, sd, appSources, loading,
                allDone, allFailed>>
viewVars   == <<hvData, avSd, avSrc, avTrends, flagged, fvLoading>>
listVars   == <<listings, total, pages, page, lvLoading, filters, loads>>
readVars   == <<view, dashVars, viewVars, listVars, rnet>>
calcVars   == <<call, ret>>
vars       == <<scrapeVars, readVars, calcVars>>

JobIds  == 1..MaxPosts
InstIds == 1..MaxOpens

\* ------------------------------------------------------------- apiFetch
\* apiFetch without the r.ok test: the body of a non-2xx response is parsed
\* and returned like any other.
apiFetchNoOkTest(outcome, body) ==
    CASE outcome = "ok"        -> [settled |-> "resolved", value |-> body]
      [] outcome = "non2xx"    -> [settled |-> "resolved",
                                     value |-> [detail |-> "error"]]
      [] outcome = "transport" -> [settled |-> "resolved", value |-> Null]
      [] outcome = "badjson"   -> [settled |-> "rejected", value |-> Null]

\* apiFetch (lines 6-14): how its promise settles.  A non-2xx response
\* throws inside the try block and a transport failure makes fetch throw
\* there; both are caught and resolve to null.  `return r.json()` is not
\* awaited inside the try block, so a body that fails to parse rejects past
\* the catch.
apiFetch(outcome, body) ==
    CASE outcome = "ok"        -> [settled |-> "resolved", value |-> body]
      [] outcome = "non2xx"    -> [settled |-> "resolved", value |-> Null]
      [] outcome = "transport" -> [settled |-> "resolved", value |-> Null]
      [] outcome = "badjson"   -> [settled |-> "rejected", value |-> Null]

\* `if(data)` / `if(d)`: the continuation runs and the value is truthy.
Truthy(r) == r.settled = "resolved" /\ r.value # Null

\* ---------------------------------------------------------- ScrapePanel
\* job?.job_id (line 282, 288): undefined for a null job and for a job
\* object without the field.
JobIdOf(j) == IF j = Null THEN NoId ELSE j.job_id

\* clearInterval(id): clearing an id that is not active does nothing.
clearInterval(ts, id) == {t \in ts : t.id # id}

\* The guard of the poll effect (line 282): the effect body installs a timer
\* and returns a cleanup exactly when it does not return early.
EffectRuns(p, j) == p /\ JobIdOf(j) # NoId

\* The cleanup the poll effect returned (line 287), run before the effect
\* re-runs and on unmount: clearInterval(pollRef.current).
EffectCleanupSkipped(ts, ref, p, j) == ts
EffectCleanup(ts, ref, p, j) ==
    IF EffectRuns(p, j) THEN clearInterval(ts, ref) ELSE ts

\* The dependency array [polling, job?.job_id] (line 288) changed.
DepsChanged(p, j, p2, j2) == p # p2 \/ JobIdOf(j) # JobIdOf(j2)

\* The poll effect (lines 281-288) after a render of instance i that takes
\* (polling, job) from (p, j) to (p2, j2), with ts the active timers and ref
\* pollRef.current at that moment.
PollEffect(i, ts, ref, p, j, p2, j2) ==
    IF ~DepsChanged(p, j, p2, j2)
    THEN [timers |-> ts, ref |-> ref, next |-> nextTimer]
    ELSE LET cleaned == EffectCleanup(ts, ref, p, j)
         IN IF EffectRuns(p2, j2)
            THEN [timers |-> cleaned \cup
                             {[id |-> nextTimer, inst |-> i, job_id |-> j2.job_id]},
                  ref    |-> nextTimer,
                  next   |-> nextTimer + 1]
            ELSE [timers |-> cleaned, ref |-> ref, next |-> nextTimer]

\* The instance a continuation belongs to is still mounted; the state
\* setters of an unmounted instance do nothing.
Mounted(i) == showScrape /\ i = inst

\* What the panel renders (lines 300-334).
FormShown      == showScrape /\ job = Null
TriggerEnabled == FormShown /\ sources # {}
DismissShown   == showScrape /\ job # Null /\ Terminal(job.status)
ErrorVisible   == showScrape /\ job # Null /\ job.status = "error"

\* The controller's states of the design (section 4.7), read off the panel.
TriggerInFlight ==
    \E m \in BagToSet(net) : m.kind = "trigger" /\ Mounted(m.inst)
Idle == job = Null /\ ~polling /\ ~TriggerInFlight

\* ------------------------------------------------------ synthetic data
\* SUBURBS, SOURCES, TYPES (lines 17-19).
SUBURBS == <<"Waigani", "Boroko", "Gerehu", "Gordons", "Hohola", "Tokarara",
             "Koki", "Badili", "Six Mile", "Eight Mile">>
SOURCES == <<"Hausples", "The Professionals", "Ray White PNG",
             "Century 21 PNG", "MarketMeri", "Facebook Marketplace",
             "SRE PNG">>
TYPES   == <<"House", "Apartment", "Townhouse", "Studio", "Room", "Compound">>

\* benchmarks[suburb] || 2500 (lines 24, 30).
benchmarks(suburb) ==
    CASE suburb = "Waigani"    -> 4470
      [] suburb = "Boroko"     -> 3150
      [] suburb = "Gerehu"     -> 1880
      [] suburb = "Gordons"    -> 5957
      [] suburb = "Hohola"     -> 1600
      [] suburb = "Tokarara"   -> 2275
      [] suburb = "Koki"       -> 2900
      [] suburb = "Badili"     -> 3325
      [] suburb = "Six Mile"   -> 1450
      [] suburb = "Eight Mile" -> 1225
      [] OTHER                 -> 2500

Max(a, b) == IF a >= b THEN a ELSE b
Min(a, b) == IF a <= b THEN a ELSE b
\* Math.round(num/den) for num >= 0, den > 0.
Round(num, den) == (2 * num + den) \div (2 * den)
\* Math.ceil(a/b) for a >= 0, b > 0.
Ceil(a, b) == (a + b - 1) \div b

\* Math.random(): a call of mockListings draws one sequence of random
\* numbers; the model takes them from {0, 1/RandSteps, ..., (RandSteps-1)/
\* RandSteps} and names the sequence by a seed: the draw for listing i is
\* Draw(seed, i)/RandSteps.
Seeds == 0..(RandSteps - 1)
Draw(seed, i) == (seed + i) % RandSteps

\* price (line 31): Math.max(800, Math.round(base * (0.75 + r * 0.6))) with
\* r = k/RandSteps.
MockPrice(base, k) ==
    Max(800, Round(base * (75 * RandSteps + 60 * k), 100 * RandSteps))

\* pct and mv (lines 33-34).  pct_vs_avg = (price - avg) / avg * 100 is kept
\* as the exact fraction pct_num / pct_den.
MarketValueExclusive(price, avg) ==
    LET num == (price - avg) * 100
    IN [label   |-> IF num < (-15) * avg THEN "Deal"
                    ELSE IF num > 15 * avg THEN "Overpriced"
                    ELSE "Fair",
        pct_num |-> num,
        pct_den |-> avg]

MarketValue(price, avg) ==
    LET num == (price - avg) * 100
    IN [label   |-> IF num <= (-15) * avg THEN "Deal"
                    ELSE IF num >= 15 * avg THEN "Overpriced"
                    ELSE "Fair",
        pct_num |-> num,
        pct_den |-> avg]

\* One element of mockListings (lines 25-51), i counted from 0.
MockListing(i, seed) ==
    LET suburb == SUBURBS[(i % Len(SUBURBS)) + 1]
        base   == benchmarks(suburb)
        price  == MockPrice(base, Draw(seed, i))
    IN [listing_id      |-> <<"mock", i>>,
        source_site     |-> SOURCES[(i % Len(SOURCES)) + 1],
        suburb          |-> suburb,
        property_type   |-> TYPES[(i % Len(TYPES)) + 1],
        price_monthly_k |-> price,
        market_value    |-> MarketValue(price, base)]

\* mockListings(n) (lines 23-52) with the draws named by seed.
mockListingsOf(n, seed) == [j \in 1..n |-> MockListing(j - 1, seed)]
\* The two calls the program makes, mockListings(100) (line 470) and
\* mockListings(60) (line 657), tabulated by seed.
MockCalls == [n \in {60, 100} |-> [seed \in Seeds |-> mockListingsOf(n, seed)]]
mockListings(n, seed) == MockCalls[n][seed]

\* MOCK_OVERVIEW .. MOCK_SOURCES (lines 54-58), as opaque datasets.
Dataset(origin, endpoint) == [origin |-> origin, endpoint |-> endpoint]
MOCK_OVERVIEW == Dataset("synthetic", "overview")
MOCK_HEATMAP  == Dataset("synthetic", "heatmap")
MOCK_TRENDS   == Dataset("synthetic", "trends")
MOCK_SD       == Dataset("synthetic", "supply-demand")
MOCK_SOURCES  == Dataset("synthetic", "sources")

\* The five fetches of loadAll, in the order of its Promise.all (lines
\* 713-714), and the synthetic dataset each falls back to (lines 716-717).
AllEndpoints == {"overview", "heatmap", "trends", "supply-demand", "sources"}
MockOf(e) == CASE e = "overview"      -> MOCK_OVERVIEW
               [] e = "heatmap"       -> MOCK_HEATMAP
               [] e = "trends"        -> MOCK_TRENDS
               [] e = "supply-demand" -> MOCK_SD
               [] e = "sources"       -> MOCK_SOURCES

\* ------------------------------------------- listings and analytics service
\* Listings the service holds: one flagged, one fair.
LiveListings ==
    << [listing_id      |-> <<"live", 0>>,
        source_site     |-> "Hausples",
        suburb          |-> "Waigani",
        property_type   |-> "House",
        price_monthly_k |-> 6705,
        market_value    |-> MarketValue(6705, 4470)],
       [listing_id      |-> <<"live", 1>>,
        source_site     |-> "SRE PNG",
        suburb          |-> "Boroko",
        property_type   |-> "Apartment",
        price_monthly_k |-> 3150,
        market_value    |-> MarketValue(3150, 3150)] >>

\* The body of a 2xx response of a read endpoint (section 6 of the design).
ServiceBody(e) ==
    CASE e = "listings"        -> [listings |-> LiveListings,
                                   total    |-> Len(LiveListings),
                                   pages    |-> 1]
      [] e = "middleman-flags" -> [flagged |-> SubSeq(LiveListings, 1, 1)]
      [] OTHER                 -> Dataset("service", e)

\* data.field || dflt for a body that may lack the field.
Field(data, f, dflt) == IF f \in DOMAIN data THEN data[f] ELSE dflt

\* ------------------------------------------------------------ ListingsView
\* useState initial values of the filters (lines 448-454).
NoFilters == [suburb |-> "", source |-> "", type |-> "", minPrice |-> "",
              maxPrice |-> "", mvFilter |-> "", sort |-> "scraped_at"]

\* String.prototype.toLowerCase on the letters A-Z.
LowerOf == [c \in {"A","B","C","D","E","F","G","H","I","J","K","L","M","N",
                   "O","P","Q","R","S","T","U","V","W","X","Y","Z"} |->
             CASE c = "A" -> "a" [] c = "B" -> "b" [] c = "C" -> "c"
               [] c = "D" -> "d" [] c = "E" -> "e" [] c = "F" -> "f"
               [] c = "G" -> "g" [] c = "H" -> "h" [] c = "I" -> "i"
               [] c = "J" -> "j" [] c = "K" -> "k" [] c = "L" -> "l"
               [] c = "M" -> "m" [] c = "N" -> "n" [] c = "O" -> "o"
               [] c = "P" -> "p" [] c = "Q" -> "q" [] c = "R" -> "r"
               [] c = "S" -> "s" [] c = "T" -> "t" [] c = "U" -> "u"
               [] c = "V" -> "v" [] c = "W" -> "w" [] c = "X" -> "x"
               [] c = "Y" -> "y" [] c = "Z" -> "z"]
RECURSIVE lowerChars(_)
lowerChars(str) ==
    IF Len(str) = 0 THEN ""
    ELSE LET c == SubSeq(str, 1, 1)
         IN (IF c \in DOMAIN LowerOf THEN LowerOf[c] ELSE c)
            \o lowerChars(SubSeq(str, 2, Len(str)))
\* The lower-case forms of the source names, tabulated.
LowerSOURCES == [s \in {SOURCES[i] : i \in DOMAIN SOURCES} |-> lowerChars(s)]
toLowerCase(str) ==
    IF str \in DOMAIN LowerSOURCES THEN LowerSOURCES[str] ELSE lowerChars(str)
\* String.prototype.includes.
includes(str, part) ==
    \E k \in 1..(Len(str) - Len(part) + 1) :
        SubSeq(str, k, k + Len(part) - 1) = part

\* Array.prototype.slice(from, to) with 0 <= from <= to.
slice(arr, from, to) == SubSeq(arr, from + 1, Min(to, Len(arr)))

\* The market-value post-filter left out.
MvFilteredSkipped(ls, f) == ls

\* The market-value post-filter (lines 467, 474).
MvFiltered(ls, f) ==
    IF f.mvFilter # ""
    THEN SelectSeq(ls, LAMBDA l : l.market_value.label = f.mvFilter)
    ELSE ls

\* Values picked in the filter controls.
FilterInputs(field) ==
    CASE field = "suburb"   -> {"", "Waigani"}
      [] field = "source"   -> {"", "Hausples"}
      [] field = "type"     -> {"", "House"}
      [] field = "mvFilter" -> {"", "Overpriced"}

\* The filter configurations picked in the four select controls.
FilterSpace ==
    {[NoFilters EXCEPT !.suburb = su, !.source = so, !.type = ty,
                       !.mvFilter = mv] :
        su \in FilterInputs("suburb"), so \in FilterInputs("source"),
        ty \in FilterInputs("type"), mv \in FilterInputs("mvFilter")}

\* The fallback branch of load (lines 470-474): mockListings(100) with the
\* filters of the call re-applied.
FallbackListingsOf(f, seed) ==
    LET ls0 == mockListings(100, seed)
        ls1 == IF f.suburb # ""
               THEN SelectSeq(ls0, LAMBDA l : l.suburb = f.suburb) ELSE ls0
        ls2 == IF f.source # ""
               THEN SelectSeq(ls1, LAMBDA l :
                        includes(toLowerCase(l.source_site),
                                 toLowerCase(f.source)))
               ELSE ls1
        ls3 == IF f.type # ""
               THEN SelectSeq(ls2, LAMBDA l : l.property_type = f.type)
               ELSE ls2
    IN MvFiltered(ls3, f)

\* The fallback lists of the filter configurations picked, tabulated.
FallbackCalls ==
    [f \in FilterSpace |-> [seed \in Seeds |-> FallbackListingsOf(f, seed)]]
FallbackListings(f, seed) ==
    IF f \in FilterSpace THEN FallbackCalls[f][seed]
    ELSE FallbackListingsOf(f, seed)

\* l.market_value?.label and l.market_value?.pct_vs_avg: undefined for a
\* listing without market_value, and then neither === "Overpriced" nor > 40.
HasMarketValue(l) ==
    /\ "market_value" \in DOMAIN l
    /\ l.market_value # Null

isFlagInclusive(l) ==
    /\ HasMarketValue(l)
    /\ l.market_value.label = "Overpriced"
    /\ l.market_value.pct_num >= 40 * l.market_value.pct_den

\* isFlag of ListingRow (line 246): label Overpriced and pct_vs_avg > 40.
isFlag(l) ==
    /\ HasMarketValue(l)
    /\ l.market_value.label = "Overpriced"
    /\ l.market_value.pct_num > 40 * l.market_value.pct_den

\* The fallback filter of FlagsView (line 657), the same test written again.
flaggedFallback(ls) ==
    SelectSeq(ls, LAMBDA l : /\ HasMarketValue(l)
                             /\ l.market_value.label = "Overpriced"
                             /\ l.market_value.pct_num >
                                    40 * l.market_value.pct_den)

\* A request of the routed view in flight; a listings request carries the
\* page and filters its load call closed over.
Request(v, e, pg, f) == [view |-> v, endpoint |-> e, page |-> pg, filters |-> f]

\* ScrapePanel closed and the job-control service idle: App after its first
\* render, whose mount effect has called loadAll (line 721).
ScrapeInitial ==
    /\ showScrape = FALSE
    /\ loadAllCalls = 1
    /\ inst = 0
    /\ sources = DefaultSources
    /\ job = Null
    /\ polling = FALSE
    /\ pollRef = [i \in InstIds |-> NoTimer]
    /\ timers = {}
    /\ nextTimer = 1
    /\ net = EmptyBag
    /\ svc = [j \in JobIds |-> "none"]
    /\ nextJob = 0
    /\ posts = 0
    /\ gets = 0
    /\ terminalSeen = {}
    /\ clickDropped = FALSE

\* App with loadAll at its await (lines 703-712).
DashInitial ==
    /\ overview = Null
    /\ heatmap = Null
    /\ trends = Null
    /\ sd = Null
    /\ appSources = Null
    /\ loading = TRUE
    /\ allDone = "awaiting"
    /\ allFailed = {}

\* useState initial values of HeatmapView, AnalyticsView and FlagsView.
ViewInitial ==
    /\ hvData = Null
    /\ avSd = Null
    /\ avSrc = Null
    /\ avTrends = Null
    /\ flagged = << >>
    /\ fvLoading = TRUE

\* No computation is being looked at on its own.
CalcInitial ==
    /\ call = Null
    /\ ret = Null

\* The state after App's first render, the dashboard routed.
Init ==
    /\ CalcInitial
    /\ ScrapeInitial
    /\ view = "dashboard"
    /\ DashInitial
    /\ ViewInitial
    /\ listings = << >>
    /\ total = 0
    /\ pages = 1
    /\ page = 1
    /\ lvLoading = FALSE
    /\ filters = NoFilters
    /\ rnet = EmptyBag
    /\ loads = 0

\* Topbar onScrape (line 729): setShowScrape(true) mounts a new ScrapePanel,
\* whose state starts from its useState/useRef initial values.
OpenScrape ==
    /\ ~showScrape
    /\ inst < MaxOpens
    /\ showScrape' = TRUE
    /\ inst' = inst + 1
    /\ sources' = DefaultSources
    /\ job' = Null
    /\ polling' = FALSE
    /\ clickDropped' = FALSE
    /\ UNCHANGED <<loadAllCalls, pollRef, envVars, posts, gets, terminalSeen>>
    /\ UNCHANGED <<readVars, calcVars>>

\* toggleSrc (line 274), from a source pill (line 304, shown while !job).
toggleSrc(s) ==
    /\ FormShown
    /\ sources' = IF s \in sources THEN sources \ {s} ELSE sources \cup {s}
    /\ clickDropped' = FALSE
    /\ UNCHANGED <<appVars, inst, job, polling, pollRef, envVars,
                   posts, gets, terminalSeen>>
    /\ UNCHANGED <<readVars, calcVars>>

\* A click on the trigger button (lines 316-318, shown while !job); the
\* button is disabled while sources is empty, and a click on it is dropped.
\* Otherwise trigger (lines 276-277) issues the POST and suspends.
TriggerClickAllowedAlways == FormShown
TriggerClickAllowed == TriggerEnabled
trigger ==
    /\ FormShown
    /\ IF TriggerClickAllowed
       THEN /\ posts < MaxPosts
            /\ net' = net (+) SetToBag({[kind |-> "trigger", inst |-> inst,
                                         job_id |-> NoId, st |-> "none",
                                         sources |-> sources]})
            /\ posts' = posts + 1
            /\ clickDropped' = FALSE
       ELSE /\ clickDropped' = TRUE
            /\ UNCHANGED <<net, posts>>
    /\ UNCHANGED <<appVars, panelVars, timers, nextTimer, svc, nextJob,
                   gets, terminalSeen>>
    /\ UNCHANGED <<readVars, calcVars>>

\* --------------------------------------------------- job-control service
\* The service reports a job's status monotonically: queued, then running,
\* then one terminal status that never changes again.
Rank(st) == CASE st = "none"    -> 0
              [] st = "queued"  -> 1
              [] st = "running" -> 2
              [] OTHER          -> 3
SvcCanReport(j, st) ==
    /\ svc[j] # "none"
    /\ Rank(st) >= Rank(svc[j])
    /\ Terminal(svc[j]) => st = svc[j]

\* The bodies a 2xx trigger response can carry when the service has created
\* nextJob jobs so far: the new job, or an object without a job_id.
TriggerBodies ==
    {[job_id |-> nextJob + 1, status |-> "queued"]} \cup
    {[job_id |-> NoId, status |-> st] : st \in {"queued", "error"}}

\* ------------------------------------------------- ScrapePanel, continued
\* The interval callback's request (lines 283-284): a tick of timer t issues
\* GET /scrape/status/{job_id} with the job_id its effect closed over.  The
\* service answers with a status that is at least the one it reported last;
\* the answer then travels back and is delivered in any order.
Tick(t) ==
    /\ t \in timers
    /\ gets < MaxGets
    /\ \E st \in Statuses :
         /\ SvcCanReport(t.job_id, st)
         /\ svc' = [svc EXCEPT ![t.job_id] = st]
         /\ net' = net (+) SetToBag({[kind |-> "status", inst |-> t.inst,
                                      job_id |-> t.job_id, st |-> st,
                                      sources |-> {}]})
    /\ gets' = gets + 1
    /\ clickDropped' = FALSE
    /\ UNCHANGED <<appVars, panelVars, timers, nextTimer, nextJob,
                   posts, terminalSeen>>
    /\ UNCHANGED <<readVars, calcVars>>

\* trigger resumes after its await (line 278) with the settled apiFetch.
TriggerResponse(m, outcome, body) ==
    /\ m \in BagToSet(net)
    /\ m.kind = "trigger"
    /\ outcome = "ok" => body.job_id = NoId \/ nextJob < MaxPosts
    /\ net' = net (-) SetToBag({m})
    /\ LET data    == apiFetch(outcome, body)
           created == outcome = "ok" /\ body.job_id # NoId
       IN /\ nextJob' = IF created THEN nextJob + 1 ELSE nextJob
          /\ svc' = IF created THEN [svc EXCEPT ![body.job_id] = body.status]
                    ELSE svc
          /\ IF Truthy(data) /\ Mounted(m.inst)
             THEN LET e == PollEffect(inst, timers, pollRef[inst],
                                      polling, job, TRUE, data.value)
                  IN /\ job' = data.value
                     /\ polling' = TRUE
                     /\ timers' = e.timers
                     /\ pollRef' = [pollRef EXCEPT ![inst] = e.ref]
                     /\ nextTimer' = e.next
             ELSE UNCHANGED <<job, polling, timers, pollRef, nextTimer>>
    /\ clickDropped' = FALSE
    /\ UNCHANGED <<appVars, inst, sources, posts, gets, terminalSeen>>
    /\ UNCHANGED <<readVars, calcVars>>

\* The interval callback resumes after its await (line 285) with the settled
\* apiFetch: setJob(d), and on a terminal status setPolling(false) and
\* clearInterval(pollRef.current); then the render and the poll effect.
PollResponse(m, outcome) ==
    /\ m \in BagToSet(net)
    /\ m.kind = "status"
    /\ net' = net (-) SetToBag({m})
    /\ LET d    == apiFetch(outcome, [job_id |-> m.job_id, status |-> m.st])
           term == Truthy(d) /\ Terminal(d.value.status)
           ref  == pollRef[m.inst]
           ts   == IF term THEN clearInterval(timers, ref) ELSE timers
       IN IF Truthy(d) /\ Mounted(m.inst)
          THEN LET p2 == IF term THEN FALSE ELSE polling
                   e  == PollEffect(inst, ts, ref, polling, job, p2, d.value)
               IN /\ job' = d.value
                  /\ polling' = p2
                  /\ timers' = e.timers
                  /\ pollRef' = [pollRef EXCEPT ![inst] = e.ref]
                  /\ nextTimer' = e.next
                  /\ terminalSeen' = IF term
                                     THEN terminalSeen \cup {d.value.job_id}
                                     ELSE terminalSeen
          ELSE /\ timers' = ts
               /\ UNCHANGED <<job, polling, pollRef, nextTimer, terminalSeen>>
    /\ clickDropped' = FALSE
    /\ UNCHANGED <<appVars, inst, sources, svc, nextJob, posts, gets>>
    /\ UNCHANGED <<readVars, calcVars>>

UnmountWithoutCleanup ==
    /\ showScrape' = FALSE
    /\ job' = Null
    /\ polling' = FALSE
    /\ sources' = DefaultSources
    /\ clickDropped' = FALSE
    /\ UNCHANGED <<inst, pollRef, timers, nextTimer, net, svc, nextJob,
                   posts, gets, terminalSeen>>

\* Unmounting the panel runs the cleanup of its last poll effect; the
\* instance's state is gone afterwards.
Unmount ==
    /\ showScrape' = FALSE
    /\ timers' = EffectCleanup(timers, pollRef[inst], polling, job)
    /\ job' = Null
    /\ polling' = FALSE
    /\ sources' = DefaultSources
    /\ clickDropped' = FALSE
    /\ UNCHANGED <<inst, pollRef, nextTimer, net, svc, nextJob,
                   posts, gets, terminalSeen>>

\* loadAll is called from the mount effect of App only (line 721), whose
\* dependency [loadAll] never changes (useCallback with [] at line 719).
\* onClose is ()=>setShowScrape(false) (line 739).
onClose ==
    /\ Unmount
    /\ UNCHANGED <<loadAllCalls, readVars, calcVars>>

\* The dismiss button (line 333, shown for a terminal job):
\* setJob(null); onClose().
Dismiss ==
    /\ DismissShown
    /\ onClose

\* The close button and the backdrop (lines 293, 297): onClose().
Close ==
    /\ showScrape
    /\ onClose

\* The panel with the source selection left as it is.
NextScrape ==
    \/ OpenScrape
    \/ trigger
    \/ \E t \in timers : Tick(t)
    \/ \E m \in BagToSet(net), o \in Outcomes, b \in TriggerBodies :
         TriggerResponse(m, o, b)
    \/ \E m \in BagToSet(net), o \in Outcomes : PollResponse(m, o)
    \/ Dismiss
    \/ Close

SpecScrape == Init /\ [][NextScrape]_vars

\* The panel before the first tick of a poll timer (the first 1200 ms of a
\* job), with the source pills in use.
NextForm ==
    \/ OpenScrape
    \/ \E s \in SrcKeys : toggleSrc(s)
    \/ trigger
    \/ \E m \in BagToSet(net), o \in Outcomes, b \in TriggerBodies :
         TriggerResponse(m, o, b)
    \/ Dismiss
    \/ Close

SpecForm == Init /\ [][NextForm]_vars

\* ---------------------------------------------------------- App.loadAll
\* x || dflt for a value that is null or an object.
Or(x, dflt) == IF x # Null THEN x ELSE dflt

\* loadAll resumes after `await Promise.all([...])` (lines 712-718), outs
\* being how each of its five fetches went.  The fetches settle in any order
\* but nothing is set before the await returns: Promise.all rejects when one
\* fetch rejects, and loadAll then ends at the await with nothing set;
\* otherwise the five setters and setLoading(false) run in one batch.
loadAllResume(outs) ==
    /\ allDone = "awaiting"
    /\ LET res(e) == apiFetch(outs[e], ServiceBody(e))
           val(e) == Or(res(e).value, MockOf(e))
       IN IF \E e \in AllEndpoints : res(e).settled = "rejected"
          THEN /\ allDone' = "rejected"
               /\ UNCHANGED <<overview, heatmap, trends, sd, appSources,
                              loading, allFailed>>
          ELSE /\ allDone' = "done"
               /\ allFailed' = {e \in AllEndpoints :
                                    outs[e] \in {"non2xx", "transport"}}
               /\ overview' = val("overview")
               /\ heatmap' = val("heatmap")
               /\ trends' = val("trends")
               /\ sd' = val("supply-demand")
               /\ appSources' = val("sources")
               /\ loading' = FALSE
    /\ UNCHANGED <<calcVars, scrapeVars, view, viewVars, listVars, rnet>>

\* The dataset App holds for an endpoint (lines 703-707).
AppData(e) == CASE e = "overview"      -> overview
                [] e = "heatmap"       -> heatmap
                [] e = "trends"        -> trends
                [] e = "supply-demand" -> sd
                [] e = "sources"       -> appSources

\* What DashboardView renders for an endpoint: prop || MOCK (lines 388-392).
DashboardShown(e) == Or(AppData(e), MockOf(e))

\* ------------------------------------------------------------- navigation
\* NAV_ITEMS (lines 341-347).
Views == {"dashboard", "listings", "heatmap", "analytics", "flags"}

\* The fetches the mount effect of a view starts (lines 480, 536, 602-604,
\* 654).
MountRequests(v) ==
    CASE v = "listings"  -> SetToBag({Request(v, "listings", 1, NoFilters)})
      [] v = "heatmap"   -> SetToBag({Request(v, "heatmap", 0, NoFilters)})
      [] v = "analytics" -> SetToBag({Request(v, e, 0, NoFilters) :
                                e \in {"supply-demand", "sources", "trends"}})
      [] v = "flags"     -> SetToBag({Request(v, "middleman-flags", 0,
                                              NoFilters)})
      [] OTHER           -> EmptyBag

\* Sidebar onNav={setView} (line 727) with the render that follows (lines
\* 731-735): the routed view is unmounted, the picked one is mounted with its
\* useState initial values and its mount effect runs.  The fetches of the
\* unmounted view still settle but their setters act on nothing, so they are
\* dropped here.
Nav(v) ==
    /\ v \in Views
    /\ v # view
    /\ v = "listings" => loads < MaxLoads
    /\ view' = v
    /\ hvData' = Null
    /\ avSd' = Null
    /\ avSrc' = Null
    /\ avTrends' = Null
    /\ flagged' = << >>
    /\ fvLoading' = TRUE
    /\ listings' = << >>
    /\ total' = 0
    /\ pages' = 1
    /\ page' = 1
    /\ filters' = NoFilters
    /\ lvLoading' = (v = "listings")
    /\ loads' = IF v = "listings" THEN loads + 1 ELSE loads
    /\ rnet' = MountRequests(v)
    /\ UNCHANGED <<calcVars, scrapeVars, dashVars>>

\* ------------------------------------------------- HeatmapView (line 536)
HeatmapResponse(m, outcome) ==
    /\ BagIn(m, rnet)
    /\ m.view = "heatmap"
    /\ rnet' = rnet (-) SetToBag({m})
    /\ LET d == apiFetch(outcome, ServiceBody(m.endpoint))
       IN hvData' = IF d.settled = "resolved"
                    THEN Or(d.value, MOCK_HEATMAP) ELSE hvData
    /\ UNCHANGED <<calcVars, scrapeVars, view, dashVars, avSd, avSrc, avTrends, flagged,
                   fvLoading, listVars>>

\* ------------------------------------------- AnalyticsView (lines 601-605)
AnalyticsResponse(m, outcome) ==
    /\ BagIn(m, rnet)
    /\ m.view = "analytics"
    /\ rnet' = rnet (-) SetToBag({m})
    /\ LET d   == apiFetch(outcome, ServiceBody(m.endpoint))
           set(e, old) == IF m.endpoint = e /\ d.settled = "resolved"
                          THEN Or(d.value, MockOf(e)) ELSE old
       IN /\ avSd' = set("supply-demand", avSd)
          /\ avSrc' = set("sources", avSrc)
          /\ avTrends' = set("trends", avTrends)
    /\ UNCHANGED <<calcVars, scrapeVars, view, dashVars, hvData, flagged, fvLoading,
                   listVars>>

\* ----------------------------------------------- FlagsView (lines 652-662)
FlagsResponse(m, outcome, seed) ==
    /\ BagIn(m, rnet)
    /\ m.view = "flags"
    /\ rnet' = rnet (-) SetToBag({m})
    /\ LET d == apiFetch(outcome, ServiceBody(m.endpoint))
       IN IF d.settled = "resolved"
          THEN /\ flagged' = IF d.value # Null /\ "flagged" \in DOMAIN d.value
                             THEN d.value.flagged
                             ELSE flaggedFallback(mockListings(60, seed))
               /\ fvLoading' = FALSE
          ELSE UNCHANGED <<flagged, fvLoading>>
    /\ UNCHANGED <<calcVars, scrapeVars, view, dashVars, hvData, avSd, avSrc, avTrends,
                   listVars>>

\* --------------------------------------------- ListingsView (lines 456-480)
\* A filter control changes (lines 488-507): the setter, the render, and the
\* effect on [load], which calls the new load.
setFilterCancelling(field, v) ==
    /\ view = "listings"
    /\ filters[field] # v
    /\ loads < MaxLoads
    /\ filters' = [filters EXCEPT ![field] = v]
    /\ lvLoading' = TRUE
    /\ loads' = loads + 1
    /\ rnet' = SetToBag({Request("listings", "listings", page, filters')})
    /\ UNCHANGED <<calcVars, scrapeVars, view, dashVars, viewVars, listings, total,
                   pages, page>>

setFilter(field, v) ==
    /\ view = "listings"
    /\ filters[field] # v
    /\ loads < MaxLoads
    /\ filters' = [filters EXCEPT ![field] = v]
    /\ lvLoading' = TRUE
    /\ loads' = loads + 1
    /\ rnet' = rnet (+) SetToBag({Request("listings", "listings", page,
                                          filters')})
    /\ UNCHANGED <<calcVars, scrapeVars, view, dashVars, viewVars, listings, total,
                   pages, page>>

\* load after its await (lines 465-477), with the page and filters the call
\* closed over.
ListingsResponse(m, outcome, seed) ==
    /\ BagIn(m, rnet)
    /\ m.view = "listings"
    /\ rnet' = rnet (-) SetToBag({m})
    /\ LET r == apiFetch(outcome, ServiceBody(m.endpoint))
           data == r.value
       IN IF r.settled = "rejected"
          THEN UNCHANGED <<listings, total, pages, lvLoading>>
          ELSE IF data # Null
          THEN /\ listings' = MvFiltered(Field(data, "listings", << >>),
                                         m.filters)
               /\ total' = Field(data, "total", 0)
               /\ pages' = Field(data, "pages", 1)
               /\ lvLoading' = FALSE
          ELSE LET ls == FallbackListings(m.filters, seed)
               IN /\ listings' = slice(ls, (m.page - 1) * 25,
                                       (m.page - 1) * 25 + 25)
                  /\ total' = Len(ls)
                  /\ pages' = Ceil(Len(ls), 25)
                  /\ lvLoading' = FALSE
    /\ UNCHANGED <<calcVars, scrapeVars, view, dashVars, viewVars, page, filters, loads>>

\* The dataset AnalyticsView holds for an endpoint (line 600).
AnalyticsData(e) == CASE e = "supply-demand" -> avSd
                      [] e = "sources"       -> avSrc
                      [] e = "trends"        -> avTrends

\* The read path: loadAll at mount, navigation, and the routed view.
NextRead ==
    \/ \E outs \in [AllEndpoints -> Outcomes] : loadAllResume(outs)
    \/ \E v \in Views : Nav(v)
    \/ \E m \in BagToSet(rnet), o \in Outcomes : HeatmapResponse(m, o)
    \/ \E m \in BagToSet(rnet), o \in Outcomes : AnalyticsResponse(m, o)
    \/ \E m \in BagToSet(rnet), o \in Outcomes, seed \in Seeds :
           FlagsResponse(m, o, seed)
    \/ \E m \in BagToSet(rnet), o \in Outcomes, seed \in Seeds :
           ListingsResponse(m, o, seed)
    \/ \E v \in FilterInputs("suburb") : setFilter("suburb", v)

SpecRead == Init /\ [][NextRead]_vars

\* The pagination buttons (lines 523-527), shown while pages > 1: the
\* setter, the render, and the effect on [load], which calls the new load.
setPage(p) ==
    /\ view = "listings"
    /\ pages > 1
    /\ p # page
    /\ loads < MaxLoads
    /\ page' = p
    /\ lvLoading' = TRUE
    /\ loads' = loads + 1
    /\ rnet' = rnet (+) SetToBag({Request("listings", "listings", p, filters)})
    /\ UNCHANGED <<calcVars, scrapeVars, view, dashVars, viewVars, listings, total,
                   pages, filters>>

\* The next-page button (line 526), disabled on the last page.
nextPage ==
    /\ page # pages
    /\ setPage(Min(pages, page + 1))

\* ListingsView with a filter configuration picked and the load for it in
\* flight; the loads before it left nothing behind (their responses were
\* rejected, lines 464-477 set nothing then), and loads counts from that
\* load on.
InitListings ==
    /\ CalcInitial
    /\ ScrapeInitial
    /\ view = "listings"
    /\ DashInitial
    /\ ViewInitial
    /\ listings = << >>
    /\ total = 0
    /\ pages = 1
    /\ page = 1
    /\ lvLoading = TRUE
    /\ filters \in FilterSpace
    /\ rnet = SetToBag({Request("listings", "listings", 1, filters)})
    /\ loads = 1

\* ListingsView on its own: filter changes, page changes and responses.
NextListings ==
    \/ \E field \in {"suburb", "source", "type", "mvFilter"} :
           \E v \in FilterInputs(field) : setFilter(field, v)
    \/ nextPage
    \/ \E m \in BagToSet(rnet), o \in Outcomes, seed \in Seeds :
           ListingsResponse(m, o, seed)

SpecListings == InitListings /\ [][NextListings]_vars

\* ================================================================ claims

\* A trigger response the mounted panel processes that failed or carried no
\* job identifier.
TriggerFailureStep ==
    \E m \in BagToSet(net), o \in Outcomes, b \in TriggerBodies :
        /\ TriggerResponse(m, o, b)
        /\ Mounted(m.inst)
        /\ ~(o = "ok" /\ b.job_id # NoId)

\* A poll response the mounted panel processes that is a non-2xx response or
\* a transport failure.
PollFailureStep ==
    \E m \in BagToSet(net), o \in {"non2xx", "transport"} :
        /\ PollResponse(m, o)
        /\ Mounted(m.inst)

\* C1: once the panel has processed a poll response carrying a terminal
\* status for a job, no timer tick issues a further GET /scrape/status
\* request for that job.
C1_NoPollAfterTerminal ==
    [][\A t \in timers : Tick(t) => t.job_id \notin terminalSeen]_vars

\* C2: a POST /scrape/trigger request is issued only from Idle (no job held,
\* not polling, no trigger request in flight), so at most one is issued
\* between leaving Idle and returning to it.
C2_TriggerOnlyFromIdle ==
    [][posts' > posts => Idle]_vars

\* C3: after a trigger response that failed or carried no job identifier the
\* panel holds no job, is not polling, and shows an error.
C3_TriggerFailureSurfaced ==
    [][TriggerFailureStep => (job' = Null /\ ~polling' /\ ErrorVisible')]_vars

\* C4: dismissing a job whose status is complete runs loadAll again;
\* dismissing a job whose status is error discards it without a reload.
C4_DismissCompleteReloads ==
    [][Dismiss => /\ job' = Null
                  /\ loadAllCalls' = IF job.status = "complete"
                                     THEN loadAllCalls + 1
                                     ELSE loadAllCalls]_vars

\* C5: no POST /scrape/trigger request is issued with an empty source
\* selection: every trigger request carries the non-empty selection of the
\* moment it was issued, whatever pills were toggled before.
C5_NoPostWithEmptySources ==
    \A m \in BagToSet(net) : m.kind = "trigger" => m.sources # {}

\* C5 witness: all sources toggled off and the trigger button clicked; the
\* click was dropped and no request is in flight.
C5_Witness ==
    /\ clickDropped
    /\ sources = {}
    /\ net = EmptyBag

\* C6: at most one poll timer is active in every reachable state.
C6_AtMostOneTimer ==
    Cardinality(timers) <= 1

\* C6 witness: a timer is active after a second trigger response replaced
\* the job the panel holds and after a terminal response was processed.
C6_Witness ==
    /\ Cardinality(timers) = 1
    /\ nextJob = 2
    /\ JobIdOf(job) = 2
    /\ terminalSeen # {}

\* C7: once the panel holds a terminal status for a job it never again
\* holds queued or running for that job.
C7_StatusMonotonic ==
    [][(/\ job # Null
        /\ job' # Null
        /\ JobIdOf(job) # NoId
        /\ JobIdOf(job') = JobIdOf(job)
        /\ Terminal(job.status)) => Terminal(job'.status)]_vars

\* C8: a failed poll request leaves the panel showing an error.
C8_PollFailureSurfaced ==
    [][PollFailureStep => ErrorVisible']_vars

\* C9: after the panel is torn down no poll timer is active (every active
\* timer belongs to the mounted instance) and no GET /scrape/status request
\* is issued while it is unmounted.
C9_NoTimerAfterTeardown ==
    /\ [](\A t \in timers : Mounted(t.inst))
    /\ [][gets' > gets => showScrape]_vars

\* C9 witness: the panel was closed while polling (a timer had been
\* installed, no terminal response processed) with a poll response still in
\* flight.
C9_Witness ==
    /\ ~showScrape
    /\ nextTimer > 1
    /\ terminalSeen = {}
    /\ \E m \in BagToSet(net) : m.kind = "status" /\ ~Terminal(m.st)

\* Read failures in the sense of the design: a non-2xx response or a
\* transport failure.
ReadFailures == {"non2xx", "transport"}
\* A row produced by mockListings.
IsMock(l) == l.listing_id[1] = "mock"
AllMock(ls) == \A i \in DOMAIN ls : IsMock(ls[i])

C11_LoadAllSettlesEveryDataset ==
    allDone # "awaiting" =>
        /\ ~loading
        /\ \A e \in AllEndpoints :
               AppData(e) = IF e \in allFailed THEN MockOf(e)
                            ELSE ServiceBody(e)

\* A listing passes the active filters: suburb and property type by
\* equality, source as a case-insensitive substring, market-value label by
\* equality; a filter left empty is inactive.
Passes(l, f) ==
    /\ f.suburb # "" => l.suburb = f.suburb
    /\ f.source # "" =>
           LET site == toLowerCase(l.source_site)
               part == toLowerCase(f.source)
           IN \E k \in 0..(Len(site) - Len(part)) :
                  SubSeq(site, k + 1, k + Len(part)) = part
    /\ f.type # "" => l.property_type = f.type
    /\ f.mvFilter # "" => l.market_value.label = f.mvFilter

\* The synthetic listings of a generation that pass a filter configuration,
\* in generation order.
PassingRows ==
    [f \in FilterSpace |->
        [seed \in Seeds |->
            SelectSeq(mockListings(100, seed), LAMBDA l : Passes(l, f))]]

\* C12: a fallback load of ListingsView shows only listings that pass every
\* active filter; the rows are the 25-row slice, for the page of the load, of
\* the synthetic listings that pass, in generation order; total is the
\* number of synthetic listings that pass, and pages the number of 25-row
\* pages they fill.
C12_FallbackAppliesFilters ==
    [][\A m \in BagToSet(rnet), o \in ReadFailures, seed \in Seeds :
         ListingsResponse(m, o, seed) =>
            LET pass  == PassingRows[m.filters][seed]
                first == (m.page - 1) * 25
            IN /\ \A k \in DOMAIN listings' : Passes(listings'[k], m.filters)
               /\ total' = Len(pass)
               /\ Len(listings') = Max(0, Min(25, total' - first))
               /\ \A k \in DOMAIN listings' : listings'[k] = pass[first + k]
               /\ pages' * 25 >= total'
               /\ (pages' - 1) * 25 < Max(1, total')]_vars

\* A fallback load for Waigani and Overpriced has shown some, not all, of
\* the synthetic Waigani listings.
C12_Witness ==
    /\ view = "listings"
    /\ ~lvLoading
    /\ rnet = EmptyBag
    /\ filters.suburb = "Waigani"
    /\ filters.mvFilter = "Overpriced"
    /\ AllMock(listings)
    /\ Len(listings) > 0
    /\ total = Len(listings)
    /\ total < 10

\* C13: the synthetic fallback is deterministic: what a fallback load of
\* ListingsView shows (listings, total, pages) is what any other generation
\* of the synthetic listings yields for the same filters and page, so two
\* fallback loads of one configuration agree, prices and labels included.
C13_FallbackDeterministic ==
    [][\A m \in BagToSet(rnet), o \in ReadFailures :
         \A seed \in Seeds, other \in Seeds :
            ListingsResponse(m, o, seed) =>
               LET ls == FallbackListings(m.filters, other)
               IN /\ listings' = slice(ls, (m.page - 1) * 25,
                                       (m.page - 1) * 25 + 25)
                  /\ total' = Len(ls)
                  /\ pages' = Ceil(Len(ls), 25)]_vars

\* ------------------------------------------- computations on their own
\* The classification of mockListings (lines 32-34) for a price and a
\* benchmark: prices and benchmarks are whole numbers, for which the double
\* arithmetic of the program gives the labels exact arithmetic gives.
ClassifyCalls ==
    {[fn |-> "classify", price |-> p, avg |-> b] :
        p \in 0..(2 * MaxBench), b \in 1..MaxBench}

classify ==
    /\ call \in ClassifyCalls
    /\ ret = Null
    /\ ret' = MarketValue(call.price, call.avg)
    /\ UNCHANGED <<call, scrapeVars, readVars>>

\* Rows to flag: the market value the classification gives a price against
\* a benchmark of 5 (7 is exactly +40%), market values as the service may
\* send them (any label with any percentage), and a row with none.
FlagRows ==
    {[listing_id |-> <<"row", p>>, market_value |-> MarketValue(p, 5)] :
        p \in 4..8}
    \cup {[listing_id   |-> <<"sent", lb, n>>,
           market_value |-> [label |-> lb, pct_num |-> n, pct_den |-> 1]] :
             lb \in {"Deal", "Fair", "Overpriced"}, n \in {39, 40, 41}}
    \cup {[listing_id |-> <<"bare", 0>>, market_value |-> Null]}

IsFlagCalls == {[fn |-> "isFlag", l |-> l] : l \in FlagRows}

FallbackFilterCalls ==
    {[fn |-> "flaggedFallback", ls |-> <<a, b>>] : a, b \in FlagRows}

\* ListingRow (lines 245-262): the flag is computed and the row rendered
\* from the listing it was given.
ListingRow ==
    /\ call \in IsFlagCalls
    /\ ret = Null
    /\ ret' = [flag |-> isFlag(call.l), l |-> call.l]
    /\ UNCHANGED <<call, scrapeVars, readVars>>

\* The fallback of FlagsView (lines 657-658) over a list of listings.
FlagsFallback ==
    /\ call \in FallbackFilterCalls
    /\ ret = Null
    /\ ret' = [flagged |-> flaggedFallback(call.ls)]
    /\ UNCHANGED <<call, scrapeVars, readVars>>

\* Lines 30-34 for one row: the benchmark of the row's suburb, the price
\* drawn around it and the market value of that price. "Konedobu" stands
\* for a suburb the benchmarks table of line 24 has no entry for.
MockRowCalls ==
    {[fn |-> "mockRow", suburb |-> s, draw |-> k] :
        s \in {SUBURBS[i] : i \in DOMAIN SUBURBS} \cup {"Konedobu"},
        k \in Seeds}

mockRow ==
    /\ call \in MockRowCalls
    /\ ret = Null
    /\ LET base  == benchmarks(call.suburb)
           price == MockPrice(base, call.draw)
       IN ret' = [suburb          |-> call.suburb,
                  price_monthly_k |-> price,
                  market_value    |-> MarketValue(price, base)]
    /\ UNCHANGED <<call, scrapeVars, readVars>>

\* Supply/demand rows: two suburbs with a supply of 0..MaxSupply and a
\* demand score among the values the thresholds turn on.
DemandScores == {0, 1, 30, 35, 50, 65, 66, 90, 100}
SdRows == [supply : 0..MaxSupply, demand_score : DemandScores]
SdData == {<<a>> : a \in SdRows} \cup {<<a, b>> : a, b \in SdRows}

\* Math.max(...data.map(d => d.supply || 0)) (lines 210 and 612).
MaxSupplyOf(data) ==
    LET RECURSIVE upTo(_)
        upTo(k) == IF k = 0 THEN 0 ELSE Max(upTo(k - 1), data[k].supply)
    IN upTo(Len(data))

\* ratio and label of one row (lines 213-214 and 627-628):
\*   ratio = (d.demand_score || 50) / (Math.min(100, d.supply/max*100) || dflt)
\* dflt is 1 in SupplyDemand and 50 in AnalyticsView. The percentage is
\* falsy when it is 0 and when it is NaN (0/0, every supply 0). The ratio
\* is kept as a fraction num/den; for supplies up to 25 the double
\* arithmetic of the program orders it against 1.3 and 0.7 as the fraction
\* is ordered.
sdRatio(d, maxS, dflt) ==
    LET demand == IF d.demand_score = 0 THEN 50 ELSE d.demand_score
        falsy  == maxS = 0 \/ d.supply = 0
    IN IF falsy THEN [num |-> demand, den |-> dflt]
       ELSE [num |-> demand * maxS, den |-> Min(100 * maxS, 100 * d.supply)]

sdLabel(ratio) ==
    IF 10 * ratio.num > 13 * ratio.den THEN "High Demand"
    ELSE IF 10 * ratio.num < 7 * ratio.den THEN "Oversupply"
    ELSE "Balanced"

SdCalls == {[fn |-> "SupplyDemand", data |-> d] : d \in SdData}
AvCalls == {[fn |-> "AnalyticsView", data |-> d] : d \in SdData}

\* SupplyDemand (lines 208-215): the label of every row of the dashboard's
\* supply/demand card.
SupplyDemand ==
    /\ call \in SdCalls
    /\ ret = Null
    /\ LET maxS == MaxSupplyOf(call.data)
       IN ret' = [labels |-> [k \in DOMAIN call.data |->
                                 sdLabel(sdRatio(call.data[k], maxS, 1))]]
    /\ UNCHANGED <<call, scrapeVars, readVars>>

\* The labels the analytics grid gives the rows of a data set (lines 612,
\* 626-628).
AnalyticsLabels(data) ==
    [k \in DOMAIN data |-> sdLabel(sdRatio(data[k], MaxSupplyOf(data), 50))]

\* The supply/demand grid of AnalyticsView (lines 612, 626-628).
AnalyticsGrid ==
    /\ call \in AvCalls
    /\ ret = Null
    /\ ret' = [labels |-> AnalyticsLabels(call.data)]
    /\ UNCHANGED <<call, scrapeVars, readVars>>

\* clamp (line 89).
clampOpen(v, lo, hi) == v

clamp(v, lo, hi) == Max(lo, Min(hi, v))

\* priceColor (lines 92-96) with its default domain lo = 1000, hi = 7000.
\* t = clamp((price - lo) / (hi - lo), 0, 1) is kept as the fraction
\* num / (hi - lo); lerp rounds as Math.round does, halves upwards.
priceColor(price, lo, hi) ==
    LET t == [num |-> clamp(price - lo, 0 * (hi - lo), 1 * (hi - lo)),
              den |-> hi - lo]
        lerp(a, b) == Round(a * t.den + (b - a) * t.num, t.den)
    IN [r |-> lerp(32, 200), g |-> lerp(190, 70), b |-> lerp(160, 45)]

PriceColorCalls == {[fn |-> "priceColor", price |-> p] : p \in 0..MaxPrice}

priceColorCall ==
    /\ call \in PriceColorCalls
    /\ ret = Null
    /\ ret' = priceColor(call.price, 1000, 7000)
    /\ UNCHANGED <<call, scrapeVars, readVars>>

\* HeatmapViz (lines 160-175) for suburbs that have coordinates: the
\* radius of every bubble. maxL = Math.max(...suburbs.map(s => s.listings
\* || 1)) and r = rOf(s.listings || 20) with rOf(l) = 22 + (l/maxL)**0.5 *
\* 28. The square root is not taken: a radius is the record of r0, rRange
\* and the fraction num/den under the root, r = r0 + sqrt(num/den) * rRange.
HeatmapCalls ==
    {[fn |-> "HeatmapViz", suburbs |-> <<[listings |-> a], [listings |-> b]>>] :
        a, b \in 0..MaxListings}

maxLOf(suburbs) ==
    LET RECURSIVE upTo(_)
        upTo(k) ==
            IF k = 0 THEN 0
            ELSE LET l == suburbs[k].listings
                 IN Max(upTo(k - 1), IF l = 0 THEN 1 ELSE l)
    IN upTo(Len(suburbs))

rOf(l, maxL) == [r0 |-> 22, rRange |-> 28, num |-> l, den |-> maxL]

HeatmapViz ==
    /\ call \in HeatmapCalls
    /\ ret = Null
    /\ LET maxL == maxLOf(call.suburbs)
       IN ret' = [r |-> [k \in DOMAIN call.suburbs |->
                            LET l == call.suburbs[k].listings
                            IN rOf(IF l = 0 THEN 20 ELSE l, maxL)]]
    /\ UNCHANGED <<call, scrapeVars, readVars>>

\* LineChart (lines 129-157). A point of the trend data is a function from
\* the series it has a value for to that value: d[k] is undefined for a
\* series outside its domain. The data sets have up to three points; the
\* third series is either absent from a point or at MaxTrend.
keys == <<"Waigani", "Boroko", "Gerehu">>
KeySet == {keys[i] : i \in DOMAIN keys}

TrendPoints ==
    {d \in UNION {[S -> 0..MaxTrend] : S \in SUBSET KeySet} :
        "Gerehu" \in DOMAIN d => d["Gerehu"] = MaxTrend}

TrendData ==
    {<< >>} \cup {<<a>> : a \in TrendPoints}
            \cup {<<a, b>> : a, b \in TrendPoints}
            \cup {<<a, b, c>> : a, b, c \in TrendPoints}

\* d[k] passed through Boolean (lines 136, 147, 151): undefined and 0 are
\* both falsy.
TruthyAt(d, k) == k \in DOMAIN d /\ d[k] # 0

\* allV (line 136) as the set of its values.
allV(td) ==
    {td[i][k] : <<i, k>> \in
        {ik \in (DOMAIN td) \X KeySet : TruthyAt(td[ik[1]], ik[2])}}

SetMin(S) == CHOOSE x \in S : \A y \in S : x <= y
SetMax(S) == CHOOSE x \in S : \A y \in S : x >= y

\* The indices of the points of series k that the polyline goes through, in
\* order (line 147), and the segments it draws: one between every two
\* consecutive points of its points list.
Plotted(td, k) ==
    {i \in DOMAIN td : TruthyAt(td[i], k)}
Segments(td, k) ==
    LET P == Plotted(td, k)
    IN {<<a, b>> \in P \X P : a < b /\ \A c \in P : ~(a < c /\ c < b)}

\* What LineChart computes. Without a value in any series Math.min() is
\* Infinity and Math.max() is -Infinity; the range is then -Infinity and
\* every gridline value NaN. toX(i) = PL + (i / (N - 1)) * iW is kept as the
\* fraction i / (N - 1): with one point it is 0/0, NaN. A gridline value
\* minV + (i / 3) * range is kept as a fraction over 3.
LineChartOf(td) ==
    IF Len(td) = 0 THEN [noData |-> TRUE]
    ELSE LET V     == allV(td)
             some  == V # {}
             minV  == IF some THEN SetMin(V) ELSE 0
             maxV  == IF some THEN SetMax(V) ELSE 0
             range == IF maxV - minV = 0 THEN 1 ELSE maxV - minV
         IN [noData  |-> FALSE,
             finite  |-> some,
             minV    |-> minV,
             maxV    |-> maxV,
             grid    |-> [i \in 0..3 |->
                            [num |-> 3 * minV + i * range, den |-> 3]],
             toX     |-> [i \in DOMAIN td |->
                            [num |-> i - 1, den |-> Len(td) - 1]],
             circles |-> [k \in KeySet |-> Plotted(td, k)],
             lines   |-> [k \in KeySet |-> Segments(td, k)]]

LineChartCalls == {[fn |-> "LineChart", trends |-> t] : t \in TrendData}

LineChart ==
    /\ call \in LineChartCalls
    /\ ret = Null
    /\ ret' = LineChartOf(call.trends)
    /\ UNCHANGED <<call, scrapeVars, readVars>>

\* One suburb of HeatmapViz (lines 171-173): left out when !s.lat || !s.lng,
\* otherwise projected with toX and toY (lines 161-163). Coordinates are in
\* thousandths of a degree; a suburb is a function from the coordinates it
\* has to their values. x = (lng - LNG0) / (LNG1 - LNG0) * W is kept as a
\* fraction, and y likewise.
Lats == {0, -9430}
Lngs == {0, 147181}
CoordSuburbs ==
    UNION {[S -> Lats \cup Lngs] : S \in SUBSET {"lat", "lng"}}

BubbleCalls ==
    {[fn |-> "HeatmapViz.bubble", s |-> s] :
        s \in {c \in CoordSuburbs :
                  /\ "lat" \in DOMAIN c => c["lat"] \in Lats
                  /\ "lng" \in DOMAIN c => c["lng"] \in Lngs}}

FalsyCoord(s, c) == c \notin DOMAIN s \/ s[c] = 0

toX(lng) == [num |-> (lng - 147130) * 520, den |-> 147210 - 147130]
toY(lat) == [num |-> (lat - (-9505)) * 320, den |-> (-9370) - (-9505)]

HeatmapBubble ==
    /\ call \in BubbleCalls
    /\ ret = Null
    /\ ret' = IF FalsyCoord(call.s, "lat") \/ FalsyCoord(call.s, "lng")
              THEN [drawn |-> FALSE]
              ELSE [drawn |-> TRUE,
                    x |-> toX(call.s["lng"]), y |-> toY(call.s["lat"])]
    /\ UNCHANGED <<call, scrapeVars, readVars>>

\* ListingsView with the two price inputs (lines 505-506): what the user
\* types is a string, sent as min_price / max_price when not empty (lines
\* 462-463).
PriceInputs(field) ==
    CASE field = "minPrice" -> {"", "3000"}
      [] field = "maxPrice" -> {"", "3500"}

InitPriceBounds ==
    /\ CalcInitial
    /\ ScrapeInitial
    /\ view = "listings"
    /\ DashInitial
    /\ ViewInitial
    /\ listings = << >>
    /\ total = 0
    /\ pages = 1
    /\ page = 1
    /\ lvLoading = TRUE
    /\ \E lo \in PriceInputs("minPrice"), hi \in PriceInputs("maxPrice") :
           filters = [NoFilters EXCEPT !.minPrice = lo, !.maxPrice = hi]
    /\ rnet = SetToBag({Request("listings", "listings", 1, filters)})
    /\ loads = 1

NextPriceBounds ==
    \/ \E field \in {"minPrice", "maxPrice"} :
           \E v \in PriceInputs(field) : setFilter(field, v)
    \/ \E m \in BagToSet(rnet), o \in Outcomes, seed \in Seeds :
           ListingsResponse(m, o, seed)

SpecPriceBounds == InitPriceBounds /\ [][NextPriceBounds]_vars

\* The computations, one call at a time: the call is drawn at the start and
\* the action of its function answers it.
Calls ==
    ClassifyCalls \cup IsFlagCalls \cup FallbackFilterCalls \cup MockRowCalls
        \cup SdCalls \cup AvCalls \cup PriceColorCalls \cup HeatmapCalls
        \cup LineChartCalls \cup BubbleCalls

InitCalc ==
    /\ call \in Calls
    /\ ret = Null
    /\ ScrapeInitial
    /\ view = "dashboard"
    /\ DashInitial
    /\ ViewInitial
    /\ listings = <<>>
    /\ total = 0
    /\ pages = 1
    /\ page = 1
    /\ lvLoading = FALSE
    /\ filters = NoFilters
    /\ rnet = EmptyBag
    /\ loads = 0

NextCalc ==
    \/ classify
    \/ ListingRow
    \/ FlagsFallback
    \/ mockRow
    \/ SupplyDemand
    \/ AnalyticsGrid
    \/ priceColorCall
    \/ HeatmapViz
    \/ LineChart
    \/ HeatmapBubble

SpecCalc == InitCalc /\ [][NextCalc]_vars

\* C14: for every price p and benchmark b > 0 the label is Deal iff
\* (p - b) / b * 100 <= -15, that is iff 20p <= 17b; Overpriced iff the
\* percentage is >= 15, that is iff 20p >= 23b; Fair otherwise; and the
\* percentage reported is (p - b) / b * 100.
C14_LabelByThresholds ==
    (call \in ClassifyCalls /\ ret # Null) =>
        /\ ret.label = "Deal" <=> 20 * call.price <= 17 * call.avg
        /\ ret.label = "Overpriced" <=> 20 * call.price >= 23 * call.avg
        /\ ret.label = "Fair" <=>
               (20 * call.price > 17 * call.avg /\
                20 * call.price < 23 * call.avg)
        /\ ret.pct_num * call.avg = (call.price - call.avg) * 100 * ret.pct_den

\* Both boundaries have been classified: 17 against 20 (-15%) as Deal, or
\* 23 against 20 (+15%) as Overpriced.
C14_Witness ==
    /\ call \in ClassifyCalls
    /\ call.avg = 20
    /\ ret # Null
    /\ \/ call.price = 17 /\ ret.label = "Deal"
       \/ call.price = 23 /\ ret.label = "Overpriced"

\* C15: a listing is flagged iff its label is Overpriced and its percentage
\* is above 40 (exactly 40 is not flagged), in the listing row and in the
\* fallback filter of the Flagged view, and flagging leaves the listing, its
\* label included, as it was.
FlaggedByClaim(l) ==
    /\ l.market_value # Null
    /\ l.market_value.label = "Overpriced"
    /\ l.market_value.pct_num * 1 > 40 * l.market_value.pct_den

LabelByRatio(d, maxS) ==
    LET num == d.demand_score * maxS
        den == Min(100 * maxS, 100 * d.supply)
    IN IF 10 * num > 13 * den THEN "High Demand"
       ELSE IF 10 * num < 7 * den THEN "Oversupply"
       ELSE "Balanced"

\* C17: for a demand score in 0..100 and 0 < supply <= maxSupply, every row
\* is labelled by its ratio demand_score / supplyPct against 1.3 and 0.7,
\* in the dashboard card and in the analytics grid.
C17_LabelByRatio ==
    (call \in SdCalls \cup AvCalls /\ ret # Null) =>
        \A k \in DOMAIN call.data :
            call.data[k].supply > 0 =>
                ret.labels[k] =
                    LabelByRatio(call.data[k], MaxSupplyOf(call.data))

\* C18: a row whose supply percentage is 0 is labelled High Demand whatever
\* its demand score, in the dashboard card and in the analytics grid.
C18_ZeroSupplyIsHighDemand ==
    (call \in SdCalls \cup AvCalls /\ ret # Null) =>
        \A k \in DOMAIN call.data :
            (call.data[k].supply = 0 /\ MaxSupplyOf(call.data) > 0) =>
                ret.labels[k] = "High Demand"

\* The two anchors of the colour scale, and their sum channel by channel.
LowAnchor  == [r |-> 32, g |-> 190, b |-> 160]
HighAnchor == [r |-> 200, g |-> 70, b |-> 45]
Channels   == {"r", "g", "b"}

\* C19 as amended: every price <= 1000 maps to exactly rgb(32,190,160),
\* every price >= 7000 to exactly rgb(200,70,45), and the price 4000 to the
\* channel-wise midpoint rounded to a whole number, halves upwards.
C19_AnchorsAndRoundedMidpoint ==
    (call \in PriceColorCalls /\ ret # Null) =>
        /\ call.price <= 1000 => ret = LowAnchor
        /\ call.price >= 7000 => ret = HighAnchor
        /\ call.price = 4000 =>
               \A c \in Channels :
                   2 * ret[c] - (LowAnchor[c] + HighAnchor[c]) \in {0, 1}

\* C19 as stated: the price 4000 maps to the channel-wise midpoint itself.
C19_ExactMidpoint ==
    (call \in PriceColorCalls /\ ret # Null /\ call.price = 4000) =>
        \A c \in Channels : 2 * ret[c] = LowAnchor[c] + HighAnchor[c]

\* The colour of the midpoint price has been computed: rgb(116,130,103).
C19_Witness ==
    /\ call \in PriceColorCalls
    /\ call.price = 4000
    /\ ret = [r |-> 116, g |-> 130, b |-> 103]

\* r0 + sqrt(a.num/a.den) * rRange <= r0 + sqrt(b.num/b.den) * rRange, for
\* radii of one r0 and rRange.
RadiusLeq(a, b) == a.num * b.den <= b.num * a.den

\* C20: for the suburbs of one heatmap, with maxListings their largest
\* listing count, a suburb with no more listings than another has no larger
\* a bubble; a suburb with 0 listings has radius r0 = 22; a suburb with
\* maxListings listings has radius r0 + rRange = 22 + 28.
C20_RadiusMonotone ==
    (call \in HeatmapCalls /\ ret # Null) =>
        LET ls == [k \in DOMAIN call.suburbs |-> call.suburbs[k].listings]
            maxListings == Max(ls[1], ls[2])
        IN maxListings > 0 =>
            /\ \A k \in DOMAIN ls : ret.r[k].r0 = 22 /\ ret.r[k].rRange = 28
            /\ \A j, k \in DOMAIN ls :
                   ls[j] <= ls[k] => RadiusLeq(ret.r[j], ret.r[k])
            /\ \A k \in DOMAIN ls : ls[k] = 0 => ret.r[k].num = 0
            /\ \A k \in DOMAIN ls :
                   ls[k] = maxListings => ret.r[k].num = ret.r[k].den

\* The values present in any series at any point, a present 0 included.
PresentValues(td) ==
    {td[ik[1]][ik[2]] :
        ik \in {jk \in (DOMAIN td) \X KeySet : jk[2] \in DOMAIN td[jk[1]]}}

\* C21: the chart's global min and max are the minimum and the maximum of
\* the values present in any series at any point: a missing value is left out
\* and a present value, 0 included, is counted.
C21_MinMaxOverPresentValues ==
    (/\ call \in LineChartCalls
     /\ ret # Null
     /\ ~ret.noData
     /\ PresentValues(call.trends) # {}) =>
        /\ ret.finite
        /\ ret.minV = SetMin(PresentValues(call.trends))
        /\ ret.maxV = SetMax(PresentValues(call.trends))

\* C22: where a series has no value at point i, the chart draws no point
\* at i for it and no segment of its line goes from a point before i to a
\* point after i.
C22_LineBrokenAtMissingValue ==
    (call \in LineChartCalls /\ ret # Null /\ ~ret.noData) =>
        \A k \in KeySet, i \in DOMAIN call.trends :
            k \notin DOMAIN call.trends[i] =>
                /\ i \notin ret.circles[k]
                /\ \A seg \in ret.lines[k] : ~(seg[1] < i /\ i < seg[2])

\* C23: with fewer than 2 points the chart reports "no data" and computes
\* no geometry; the X position is never taken with N - 1 = 0.
C23_NoDataBelowTwoPoints ==
    (call \in LineChartCalls /\ ret # Null) =>
        /\ Len(call.trends) < 2 => ret.noData
        /\ ~ret.noData => \A i \in DOMAIN ret.toX : ret.toX[i].den # 0

\* C24: the chart has exactly 4 gridline values, evenly spaced, the first
\* the global min and the last the global max, also when every value is
\* the same.
C24_FourEvenGridlines ==
    (call \in LineChartCalls /\ ret # Null /\ ~ret.noData /\ ret.finite) =>
        /\ DOMAIN ret.grid = 0..3
        /\ ret.grid[0].num = ret.minV * ret.grid[0].den
        /\ ret.grid[3].num = ret.maxV * ret.grid[3].den
        /\ \A i \in 1..2 :
               /\ ret.grid[i].den = ret.grid[0].den
               /\ ret.grid[i + 1].num - ret.grid[i].num =
                      ret.grid[i].num - ret.grid[i - 1].num

\* C25: a suburb is left out of the projection iff its lat or its lng is
\* missing; with both present it is projected, whatever their values, from
\* its own coordinates.
C25_LeftOutIffCoordinateMissing ==
    (call \in BubbleCalls /\ ret # Null) =>
        /\ ret.drawn <=> ("lat" \in DOMAIN call.s /\ "lng" \in DOMAIN call.s)
        /\ ret.drawn =>
               /\ ret.x = toX(call.s["lng"])
               /\ ret.y = toY(call.s["lat"])

\* What a response to the listings request m sets, whatever the filters and
\* page of the view are by then: nothing (rejected), the service's rows
\* under m's market-value filter, or the synthetic rows under m's filters
\* and page.
SetFromRequest(m) ==
    \/ UNCHANGED <<listings, total, pages, lvLoading>>
    \/ /\ ~lvLoading'
       /\ listings' = SelectSeq(LiveListings, LAMBDA l :
                         m.filters.mvFilter \in {"", l.market_value.label})
       /\ total' = Len(LiveListings)
       /\ pages' = 1
    \/ /\ ~lvLoading'
       /\ \E seed \in Seeds :
             LET pass == PassingRows[m.filters][seed]
             IN /\ total' = Len(pass)
                /\ pages' = Ceil(total', 25)
                /\ listings' = slice(pass, (m.page - 1) * 25, m.page * 25)

C27_HeldJobPolledOrDismissable ==
    (showScrape /\ job # Null) =>
        \/ \E t \in timers : t.inst = inst
        \/ DismissShown

\* C28: in ListingsView the current page is always between 1 and
\* max(1, pages), whatever filter changes, page changes and loads came
\* before.
C28_PageWithinPages ==
    view = "listings" => (1 <= page /\ page <= Max(1, pages))

\* The number a price input stands for, and a row within the bounds set.
NumberOf(str) == CASE str = "3000" -> 3000 [] str = "3500" -> 3500
WithinBounds(l, f) ==
    /\ f.minPrice # "" => l.price_monthly_k >= NumberOf(f.minPrice)
    /\ f.maxPrice # "" => l.price_monthly_k <= NumberOf(f.maxPrice)

\* C29: on the fallback path, with minPrice or maxPrice set, every row
\* shown has its price within the bounds and total counts the synthetic
\* rows within the bounds only.
C29_FallbackAppliesPriceBounds ==
    [][\A m \in BagToSet(rnet), o \in ReadFailures, seed \in Seeds :
         (/\ ListingsResponse(m, o, seed)
          /\ (m.filters.minPrice # "" \/ m.filters.maxPrice # "")) =>
             /\ \A k \in DOMAIN listings' : WithinBounds(listings'[k], m.filters)
             /\ total' = Len(SelectSeq(mockListings(100, seed),
                                       LAMBDA l : WithinBounds(l, m.filters)))]_vars

\* C30: for one supply/demand data set the dashboard card and the analytics
\* grid give every suburb the same label, also a suburb with supply 0 and
\* a data set whose largest supply is 0.
C30_SameLabelInBothViews ==
    (call \in SdCalls /\ ret # Null) =>
        ret.labels = AnalyticsLabels(call.data)

====
